---- MODULE Spec2Model ----
(***************************************************************************)
(* Model of the BFHL REST API (src/main.py): the four numeric utilities,   *)
(* the remote answer fetcher ask_gemini and the POST /bfhl handler         *)
(* process_request.                                                        *)
(*                                                                         *)
(* Python values are modelled as follows.                                  *)
(*   Optional[T]   a sequence of length 0 (None) or 1 (the value)          *)
(*   List[int]     a sequence of integers                                  *)
(*   str (answer)  a sequence of one-character strings                     *)
(*   a call        a record [ok |-> TRUE, val |-> v] when it returns v,    *)
(*                 [ok |-> FALSE, exc |-> class, msg |-> str(e)] when it   *)
(*                 raises                                                  *)
(***************************************************************************)
EXTENDS Integers, Sequences, FiniteSets, TLC

VARIABLES
    apiKey,     \* GEMINI_API_KEY, read from the environment at start-up
    pc,         \* position of the handler: "idle", "waiting" (POST in flight), "done"
    request,    \* the BFHLRequest being handled (Optional)
    upstream,   \* what requests.post produced for this request (Optional)
    invoked,    \* the utilities the handler has called, in order
    posts,      \* number of HTTP POSTs sent to the remote service for this request
    response,   \* the HTTP response of the handler (Optional)
    call,       \* a direct call of a utility: its name and argument (Optional)
    ret         \* the outcome of that call (Optional)

vars == <<apiKey, pc, request, upstream, invoked, posts, response, call, ret>>

handlerVars == <<apiKey, pc, request, upstream, invoked, posts, response>>

utilVars == <<call, ret>>

----------------------------------------------------------------------------
(* Bounds of the model *)

MaxFib == 10

MaxNeg == 2

MaxVal == 10

MaxLen == 3

MaxReqVal == 1

MaxReqLen == 2

MaxText == 3

MaxReqFib == 5

----------------------------------------------------------------------------
(* Python values *)

None == <<>>

Some(v) == <<v>>

OptOf(S) == {None} \cup {Some(v) : v \in S}

SeqsUpTo(S, n) == UNION {[1..k -> S] : k \in 0..n}

Returns(v) == [ok |-> TRUE, val |-> v]

Raises(cls, m) == [ok |-> FALSE, exc |-> cls, msg |-> m]

Abs(x) == IF x < 0 THEN -x ELSE x

OFFICIAL_EMAIL == "gorav0083.be23@chitkara.edu.in"

----------------------------------------------------------------------------
(* generate_fibonacci *)

RECURSIVE FibLoop(_, _, _, _)
FibLoop(k, series, a, b) ==
    IF k = 0 THEN series
    ELSE FibLoop(k - 1, Append(series, a), b, a + b)

\* mutant: the loop starts from a, b = 1, 1
generate_fibonacci_from_one(n) ==
    IF n < 0 THEN Raises("ValueError", "Number must be non-negative")
    ELSE Returns(FibLoop(n, <<>>, 1, 1))

generate_fibonacci(n) ==
    IF n < 0 THEN Raises("ValueError", "Number must be non-negative")
    ELSE Returns(FibLoop(n, <<>>, 0, 1))

----------------------------------------------------------------------------
(* get_primes *)

\* int(x**0.5) for x >= 0
ISqrt(x) == CHOOSE r \in 0..x : r * r <= x /\ (r + 1) * (r + 1) > x

\* mutant: range(2, int(x**0.5)) without the + 1
TrialDivisors_exclusive(x) == 2..(ISqrt(x) - 1)

TrialDivisors(x) == 2..ISqrt(x)

is_prime(x) ==
    IF x < 2 THEN FALSE
    ELSE \A i \in TrialDivisors(x) : x % i # 0

get_primes(numbers) ==
    IF Len(numbers) = 0 THEN Raises("ValueError", "List cannot be empty")
    ELSE Returns(SelectSeq(numbers, is_prime))

----------------------------------------------------------------------------
(* math.gcd, functools.reduce, calculate_lcm, calculate_hcf *)

RECURSIVE Euclid(_, _)
Euclid(a, b) == IF b = 0 THEN a ELSE Euclid(b, a % b)

gcd(a, b) == Euclid(Abs(a), Abs(b))

\* lcm(a, b) of calculate_lcm: abs(a * b) // gcd(a, b)
lcm(a, b) ==
    IF gcd(a, b) = 0 THEN Raises("ZeroDivisionError", "integer division or modulo by zero")
    ELSE Returns(Abs(a * b) \div gcd(a, b))

\* reduce(lcm, numbers) from the accumulator acc over numbers[i..]
RECURSIVE ReduceLcm(_, _, _)
ReduceLcm(acc, numbers, i) ==
    IF i > Len(numbers) THEN Returns(acc)
    ELSE LET r == lcm(acc, numbers[i])
         IN  IF r.ok THEN ReduceLcm(r.val, numbers, i + 1) ELSE r

calculate_lcm(numbers) ==
    IF Len(numbers) = 0 THEN Raises("ValueError", "List cannot be empty")
    ELSE ReduceLcm(numbers[1], numbers, 2)

RECURSIVE ReduceGcd(_, _, _)
ReduceGcd(acc, numbers, i) ==
    IF i > Len(numbers) THEN acc
    ELSE ReduceGcd(gcd(acc, numbers[i]), numbers, i + 1)

calculate_hcf(numbers) ==
    IF Len(numbers) = 0 THEN Raises("ValueError", "List cannot be empty")
    ELSE Returns(ReduceGcd(numbers[1], numbers, 2))

----------------------------------------------------------------------------
(* Direct calls of the utilities on bounded inputs *)

FibInputs == (-MaxNeg)..MaxFib

Lists == SeqsUpTo((-MaxNeg)..MaxVal, MaxLen)

CallFibonacci(n) ==
    /\ call = None
    /\ call' = Some([fn |-> "fibonacci", arg |-> n])
    /\ ret' = Some(generate_fibonacci(n))
    /\ UNCHANGED handlerVars

CallPrimes(numbers) ==
    /\ call = None
    /\ call' = Some([fn |-> "prime", arg |-> numbers])
    /\ ret' = Some(get_primes(numbers))
    /\ UNCHANGED handlerVars

CallLcm(numbers) ==
    /\ call = None
    /\ call' = Some([fn |-> "lcm", arg |-> numbers])
    /\ ret' = Some(calculate_lcm(numbers))
    /\ UNCHANGED handlerVars

CallHcf(numbers) ==
    /\ call = None
    /\ call' = Some([fn |-> "hcf", arg |-> numbers])
    /\ ret' = Some(calculate_hcf(numbers))
    /\ UNCHANGED handlerVars

----------------------------------------------------------------------------
(* str.strip and str.split of the answer text *)

Whitespace == {" ", "\n"}

Chars == Whitespace \cup {"a", "b"}

RECURSIVE LStrip(_)
LStrip(s) ==
    IF Len(s) = 0 \/ s[1] \notin Whitespace THEN s ELSE LStrip(Tail(s))

RECURSIVE RStrip(_)
RStrip(s) ==
    IF Len(s) = 0 \/ s[Len(s)] \notin Whitespace THEN s
    ELSE RStrip(SubSeq(s, 1, Len(s) - 1))

strip(s) == RStrip(LStrip(s))

\* s.split(): the maximal runs of non-whitespace characters, in order
RECURSIVE SplitLoop(_, _, _)
SplitLoop(s, cur, words) ==
    IF Len(s) = 0
    THEN IF Len(cur) = 0 THEN words ELSE Append(words, cur)
    ELSE IF s[1] \in Whitespace
         THEN SplitLoop(Tail(s), <<>>, IF Len(cur) = 0 THEN words ELSE Append(words, cur))
         ELSE SplitLoop(Tail(s), Append(cur, s[1]), words)

split(s) == SplitLoop(s, <<>>, <<>>)

----------------------------------------------------------------------------
(* The remote service: what requests.post can produce *)

Texts == SeqsUpTo(Chars, MaxText)

StatusCodes == {200, 429, 503}

\* the body of the remote response: text response.json() cannot parse, or an object
Bodies ==
    {[parsed |-> FALSE, raw |-> "<html>Bad Gateway</html>"]}
    \cup {[parsed |-> TRUE, obj |-> o] : o \in
            {[error |-> "quota exceeded for key"]}
            \cup {[candidates |-> c] : c \in
                    {<<>>}
                    \cup {<<[finishReason |-> "SAFETY"]>>}
                    \cup {<<[content |-> [role |-> "model"]]>>}
                    \cup {<<[content |-> [parts |-> p]]>> : p \in
                            {<<>>}
                            \cup {<<[inlineData |-> "x"]>>}
                            \cup {<<[text |-> t]>> : t \in Texts}}}}

Replies ==
    {[kind |-> "timeout"]}
    \cup {[kind |-> "http", status_code |-> s, body |-> b] : s \in StatusCodes, b \in Bodies}

----------------------------------------------------------------------------
(* ask_gemini, in two halves around requests.post *)

\* mutant: `GEMINI_API_KEY is None`
KeyMissing_none_only(key) == key = None

\* `not GEMINI_API_KEY`: unset or the empty string
KeyMissing(key) == key = None \/ key[1] = ""

\* the code after requests.post returns or raises
AskGeminiFinish(r) ==
    IF r.kind = "timeout"
    THEN Raises("ReadTimeout", "Read timed out. (read timeout=10)")
    ELSE IF r.status_code # 200
    THEN Raises("ValueError", "AI service error")
    ELSE IF ~r.body.parsed
    THEN Raises("JSONDecodeError", "Expecting value: line 1 column 1 (char 0)")
    ELSE LET result == r.body.obj IN
    IF "candidates" \notin DOMAIN result
    THEN Raises("KeyError", "'candidates'")
    ELSE IF Len(result.candidates) = 0
    THEN Raises("IndexError", "list index out of range")
    ELSE LET cand == result.candidates[1] IN
    IF "content" \notin DOMAIN cand
    THEN Raises("KeyError", "'content'")
    ELSE IF "parts" \notin DOMAIN cand.content
    THEN Raises("KeyError", "'parts'")
    ELSE IF Len(cand.content.parts) = 0
    THEN Raises("IndexError", "list index out of range")
    ELSE LET part == cand.content.parts[1] IN
    IF "text" \notin DOMAIN part
    THEN Raises("KeyError", "'text'")
    ELSE LET words == split(strip(part.text)) IN
    IF Len(words) = 0
    THEN Raises("IndexError", "list index out of range")
    ELSE Returns(words[1])

----------------------------------------------------------------------------
(* process_request *)

FieldOrder == <<"fibonacci", "prime", "lcm", "hcf", "AI">>

ReqLists == SeqsUpTo(0..MaxReqVal, MaxReqLen)

Questions == {"", "What is the capital of France?"}

Requests ==
    [fibonacci : OptOf((-1)..MaxReqFib),
     prime : OptOf(ReqLists),
     lcm : OptOf(ReqLists),
     hcf : OptOf(ReqLists),
     AI : OptOf(Questions)]

provided_keys(req) == SelectSeq(FieldOrder, LAMBDA k : req[k] # None)

\* mutant: `len(provided_keys) == 0`
KeyCountInvalid_empty_only(keys) == Len(keys) = 0

KeyCountInvalid(keys) == Len(keys) # 1

\* `except ValueError` also catches the subclasses of ValueError
IsValueError(cls) == cls \in {"ValueError", "JSONDecodeError"}

SuccessResponse(data) ==
    [status |-> 200,
     body |-> [is_success |-> TRUE, official_email |-> OFFICIAL_EMAIL, data |-> data]]

\* mutant: the error envelope is returned instead of raised as HTTPException
ErrorResponse_returned(status, message) ==
    [status |-> 200,
     body |-> [is_success |-> FALSE, official_email |-> OFFICIAL_EMAIL, error |-> message]]

ErrorResponse(status, message) ==
    [status |-> status,
     body |-> [is_success |-> FALSE, official_email |-> OFFICIAL_EMAIL, error |-> message]]

\* mutant: a single `except Exception` clause
Outcome_catch_all(r) ==
    IF r.ok THEN SuccessResponse(r.val)
    ELSE ErrorResponse(500, "Internal server error")

\* the return and the two except clauses of the handler
Outcome(r) ==
    IF r.ok THEN SuccessResponse(r.val)
    ELSE IF IsValueError(r.exc) THEN ErrorResponse(400, r.msg)
    ELSE ErrorResponse(500, "Internal server error")

\* mutant: the lcm and hcf branches are swapped
Dispatch_swapped(key, value) ==
    IF key = "fibonacci" THEN generate_fibonacci(value)
    ELSE IF key = "prime" THEN get_primes(value)
    ELSE IF key = "lcm" THEN calculate_hcf(value)
    ELSE IF key = "hcf" THEN calculate_lcm(value)
    ELSE Raises("ValueError", "Invalid key")

\* the if/elif chain for the utilities that return at once
Dispatch(key, value) ==
    IF key = "fibonacci" THEN generate_fibonacci(value)
    ELSE IF key = "prime" THEN get_primes(value)
    ELSE IF key = "lcm" THEN calculate_lcm(value)
    ELSE IF key = "hcf" THEN calculate_hcf(value)
    ELSE Raises("ValueError", "Invalid key")

\* POST /bfhl up to its response, or up to requests.post when the key is AI
ProcessRequest(req) ==
    /\ pc = "idle"
    /\ request' = Some(req)
    /\ LET keys == provided_keys(req) IN
       IF KeyCountInvalid(keys)
       THEN /\ response' = Some(ErrorResponse(400, "Exactly one key must be provided"))
            /\ pc' = "done"
            /\ UNCHANGED <<invoked, posts>>
       ELSE LET key == keys[1]
                value == req[key][1]
            IN  /\ invoked' = Append(invoked, [fn |-> key, arg |-> value])
                /\ IF key = "AI"
                   THEN IF KeyMissing(apiKey)
                        THEN /\ response' = Some(Outcome(Raises("ValueError", "AI API key not configured")))
                             /\ pc' = "done"
                             /\ UNCHANGED posts
                        ELSE /\ posts' = posts + 1
                             /\ pc' = "waiting"
                             /\ UNCHANGED response
                   ELSE /\ response' = Some(Outcome(Dispatch(key, value)))
                        /\ pc' = "done"
                        /\ UNCHANGED posts
    /\ UNCHANGED <<apiKey, upstream, call, ret>>

\* mutant: a timed-out POST is sent again
RemoteReply_retry(r) ==
    /\ pc = "waiting"
    /\ upstream' = Some(r)
    /\ IF r.kind = "timeout"
       THEN /\ posts' = posts + 1
            /\ UNCHANGED <<pc, response>>
       ELSE /\ response' = Some(Outcome(AskGeminiFinish(r)))
            /\ pc' = "done"
            /\ UNCHANGED posts
    /\ UNCHANGED <<apiKey, request, invoked, call, ret>>

\* requests.post returns or times out; the rest of ask_gemini and of the handler
RemoteReply(r) ==
    /\ pc = "waiting"
    /\ upstream' = Some(r)
    /\ response' = Some(Outcome(AskGeminiFinish(r)))
    /\ pc' = "done"
    /\ UNCHANGED <<apiKey, request, invoked, posts, call, ret>>

Init ==
    /\ apiKey \in {None, Some(""), Some("secret")}
    /\ pc = "idle"
    /\ request = None
    /\ upstream = None
    /\ invoked = <<>>
    /\ posts = 0
    /\ response = None
    /\ call = None
    /\ ret = None

UtilNext ==
    \/ call = None /\ \E n \in FibInputs : CallFibonacci(n)
    \/ call = None /\ \E numbers \in Lists : CallPrimes(numbers)
    \/ call = None /\ \E numbers \in Lists : CallLcm(numbers)
    \/ call = None /\ \E numbers \in Lists : CallHcf(numbers)

SpecUtil == Init /\ [][UtilNext]_vars

Next ==
    \/ pc = "idle" /\ \E req \in Requests : ProcessRequest(req)
    \/ pc = "waiting" /\ \E r \in Replies : RemoteReply(r)

Spec == Init /\ [][Next]_vars

----------------------------------------------------------------------------
(* Properties of POST /bfhl, checked under Spec *)

Req == request[1]

Resp == response[1]

Reply == upstream[1]

Present == {k \in {"fibonacci", "prime", "lcm", "hcf", "AI"} : Req[k] # None}

OnlyAI == Present = {"AI"}

NoCredential == apiKey = None \/ apiKey = Some("")

ErrorIs(status, message) ==
    /\ Resp.status = status
    /\ Resp.body.is_success = FALSE
    /\ DOMAIN Resp.body = {"is_success", "official_email", "error"}
    /\ Resp.body.error = message

\* C1: a request whose number of present fields is not exactly 1 is answered
\* 400 with error "Exactly one key must be provided", and neither a utility
\* nor the fetcher is invoked.
C1_NotExactlyOneKeyRejected ==
    (pc # "idle" /\ Cardinality(Present) # 1) =>
        /\ pc = "done"
        /\ ErrorIs(400, "Exactly one key must be provided")
        /\ invoked = <<>>
        /\ posts = 0

C1_Witness ==
    /\ pc = "done"
    /\ Present = {"fibonacci", "prime"}
    /\ Resp.status = 400
    /\ invoked = <<>>

C3_Original ==
    (pc # "idle" /\ OnlyAI /\ NoCredential) =>
        /\ pc = "done"
        /\ ErrorIs(500, "Internal server error")
        /\ posts = 0

\* C3 as amended: an AI request handled with no credential configured is
\* answered 400 with error "AI API key not configured", and no request is sent
\* to the remote service.
C3_MissingKeyIsClientError ==
    (pc # "idle" /\ OnlyAI /\ NoCredential) =>
        /\ pc = "done"
        /\ ErrorIs(400, "AI API key not configured")
        /\ posts = 0
        /\ upstream = None

C3_Witness ==
    /\ pc = "done"
    /\ OnlyAI
    /\ apiKey = Some("")
    /\ Resp.status = 400
    /\ posts = 0

\* the shapes of a 200 body from which no answer can be read
Malformed(b) ==
    \/ ~b.parsed
    \/ "candidates" \notin DOMAIN b.obj
    \/ Len(b.obj.candidates) = 0
    \/ "content" \notin DOMAIN b.obj.candidates[1]
    \/ "parts" \notin DOMAIN b.obj.candidates[1].content
    \/ Len(b.obj.candidates[1].content.parts) = 0
    \/ "text" \notin DOMAIN b.obj.candidates[1].content.parts[1]
    \/ \A i \in DOMAIN b.obj.candidates[1].content.parts[1].text :
          b.obj.candidates[1].content.parts[1].text[i] \in Whitespace

\* C4: an AI request whose remote call times out, or answers 200 with a
\* malformed body (unparseable, no candidate, no text, empty text), is answered
\* 500 with the generic message "Internal server error" and no data.
C4_MalformedOrTimeoutIsInternalError ==
    (pc = "done" /\ OnlyAI /\ upstream # None
        /\ (Reply.kind = "timeout"
            \/ (Reply.status_code = 200 /\ Malformed(Reply.body)))) =>
        ErrorIs(500, "Internal server error")

\* C5: every response is an envelope with data present iff is_success and
\* error present iff not is_success; status 200 only with is_success true,
\* status 400 or 500 only with is_success false.
C5_EnvelopeShape ==
    pc = "done" =>
        /\ Resp.status \in {200, 400, 500}
        /\ Resp.body.is_success \in BOOLEAN
        /\ ("data" \in DOMAIN Resp.body) <=> Resp.body.is_success
        /\ ("error" \in DOMAIN Resp.body) <=> ~Resp.body.is_success
        /\ Resp.status = 200 <=> Resp.body.is_success
        /\ Resp.body.official_email = OFFICIAL_EMAIL

C5_Witness ==
    /\ pc = "done"
    /\ Present = {"lcm"}
    /\ Req.lcm = Some(<<0, 0>>)
    /\ Resp.status = 500
    /\ "error" \in DOMAIN Resp.body

\* the utility a field name stands for, applied to the field's value
UtilityOf(k, v) ==
    CASE k = "fibonacci" -> generate_fibonacci(v)
      [] k = "prime" -> get_primes(v)
      [] k = "lcm" -> calculate_lcm(v)
      [] k = "hcf" -> calculate_hcf(v)

\* w is the first whitespace-delimited word of the text t
FirstWordOf(w, t) ==
    /\ Len(w) > 0
    /\ \A i \in 1..Len(w) : w[i] \notin Whitespace
    /\ \E start \in 1..Len(t) :
          /\ \A i \in 1..(start - 1) : t[i] \in Whitespace
          /\ start + Len(w) - 1 <= Len(t)
          /\ SubSeq(t, start, start + Len(w) - 1) = w
          /\ (start + Len(w) <= Len(t) => t[start + Len(w)] \in Whitespace)

SuccessIs(data) ==
    /\ Resp.status = 200
    /\ Resp.body.is_success = TRUE
    /\ DOMAIN Resp.body = {"is_success", "official_email", "data"}
    /\ Resp.body.data = data

\* C6: with exactly one present field, only the utility of that field's name
\* is invoked, with that field's value; when it succeeds the response is 200
\* with data equal to its result ({fibonacci: 5} gives [0,1,1,2,3]; for AI the
\* first word of the answer text).
C6_DispatchToMatchingUtility ==
    (pc = "done" /\ Cardinality(Present) = 1) =>
        \A k \in Present :
            /\ invoked = <<[fn |-> k, arg |-> Req[k][1]]>>
            /\ (k # "AI" /\ UtilityOf(k, Req[k][1]).ok) =>
                   SuccessIs(UtilityOf(k, Req[k][1]).val)
            /\ (k = "fibonacci" /\ Req[k] = Some(5)) => SuccessIs(<<0, 1, 1, 2, 3>>)
            /\ (k = "AI" /\ upstream # None /\ Reply.kind = "http"
                    /\ Reply.status_code = 200 /\ ~Malformed(Reply.body)) =>
                   /\ Resp.status = 200
                   /\ Resp.body.is_success
                   /\ FirstWordOf(Resp.body.data,
                                  Reply.body.obj.candidates[1].content.parts[1].text)

C6_Witness ==
    /\ pc = "done"
    /\ Present = {"hcf"}
    /\ Req.hcf = Some(<<0, 1>>)
    /\ invoked = <<[fn |-> "hcf", arg |-> <<0, 1>>]>>
    /\ Resp.status = 200
    /\ Resp.body.data = 1

\* C10: at most one POST goes to the remote service per request: exactly one
\* when the only present field is AI and a credential is configured, none
\* otherwise; a failed or timed-out call ends the request in an error response
\* with the call sent once.
C10_AtMostOnePost ==
    /\ posts <= 1
    /\ pc # "idle" => posts = (IF OnlyAI /\ ~NoCredential THEN 1 ELSE 0)
    /\ (pc # "idle" /\ upstream # None) => pc = "done" /\ posts = 1
    /\ (pc = "done" /\ upstream # None
            /\ (Reply.kind = "timeout" \/ Reply.status_code # 200)) =>
           /\ Resp.body.is_success = FALSE
           /\ posts = 1

C10_Witness ==
    /\ pc = "done"
    /\ OnlyAI
    /\ upstream = Some([kind |-> "timeout"])
    /\ posts = 1
    /\ Resp.status = 500

----------------------------------------------------------------------------
(* Properties of the numeric utilities, checked under SpecUtil *)

Called(f) == call # None /\ call[1].fn = f

Arg == call[1].arg

Ret == ret[1]

RaisesInvalidInput ==
    /\ ~Ret.ok
    /\ Ret.exc = "ValueError"
    /\ "val" \notin DOMAIN Ret

\* C7: for n >= 0 fibonacci(n) has length n and holds the first n terms of
\* 0, 1, 1, 2, ... (each later term the sum of the two before it); for n < 0 it
\* fails with InvalidInput and returns no sequence.
C7_FibonacciFirstTerms ==
    Called("fibonacci") =>
        /\ Arg < 0 => RaisesInvalidInput
        /\ Arg >= 0 =>
              /\ Ret.ok
              /\ Len(Ret.val) = Arg
              /\ Arg >= 1 => Ret.val[1] = 0
              /\ Arg >= 2 => Ret.val[2] = 1
              /\ \A i \in 3..Arg : Ret.val[i] = Ret.val[i - 1] + Ret.val[i - 2]
        /\ Arg = 10 => Ret.val = <<0, 1, 1, 2, 3, 5, 8, 13, 21, 34>>

C7_Witness ==
    /\ Called("fibonacci")
    /\ Arg = 10
    /\ Ret.ok
    /\ Len(Ret.val) = 10

\* C8: for every non-empty list, lcm(numbers) completes and returns a single
\* integer, zeros in the list included: no division by zero occurs.
C8_LcmNeverDividesByZero ==
    (Called("lcm") /\ Len(Arg) > 0) =>
        /\ Ret.ok
        /\ Ret.val \in Int

\* x is prime: at least 2 and divisible by no d with 1 < d < x
IsPrime(x) == x >= 2 /\ \A d \in 2..(x - 1) : x % d # 0

====
